---- MODULE Spec2Model ----
(***************************************************************************)
(* Model of the bridge API service (api/src/app.ts and its later revision  *)
(* with the /api/validators route, pagination and the Ethereum timestamp). *)
(*                                                                         *)
(* Two parts:                                                              *)
(*  - the block scans (getGlitchInfo's filtered forEach and the            *)
(*    unconditional forEach of transactionInfo) as pure operators; the     *)
(*    filtered one is applied to every bounded block under SpecScan;       *)
(*  - the request handlers as interleaved asynchronous steps over the      *)
(*    transaction store and the chain node under Spec.                     *)
(***************************************************************************)
EXTENDS Integers, Sequences, FiniteSets, TLC

\* ------------------------------------------------------------------ bounds

\* Longest block (number of extrinsics) the pure scans are applied to.
MaxOps == 3

\* Longest block the chain node serves to the request handlers.
MaxChainOps == 2

\* Number of HTTP requests in one run.
MaxRequests == 2

\* ------------------------------------------------------------------ values

\* JavaScript's two absent values: a `let` never assigned and Array.at() out
\* of range give undefined, a nullable column never written reads as null.
Undefined == "undefined"
Null == "null"

\* if (v) on a string-or-absent value: undefined, null and "" are falsy.
Truthy(v) == v \notin {Undefined, Null, ""}

Addresses == {"0xAA", "0xBB"}
Amounts == {100, 999}

\* Decoded call arguments (Codec values of the chain client).
AccountArg(a) == [kind |-> "AccountId", val |-> a]
BalanceArg(n) == [kind |-> "Balance", val |-> n]

\* a.toString() of a decoded argument: an account renders as its address, a
\* balance as its decimal digits.
ArgToString(a) == IF a.kind = "Balance" THEN ToString(a.val) ELSE a.val

\* args.map((a) => a.toString())
ArgsToStrings(args) == [i \in 1..Len(args) |-> ArgToString(args[i])]

\* x.at(1): the second element, undefined when there is none.
At1(x) == IF Len(x) >= 2 THEN x[2] ELSE Undefined

\* ex.hash.toHex()
ToHex(h) == "0x" \o ToString(h)

\* Argument lists of zero, one and two arguments.
ArgLists ==
    {<<>>} \cup {<<AccountArg(a)>> : a \in Addresses}
           \cup {<<AccountArg(a), BalanceArg(n)>> : a \in Addresses, n \in Amounts}

\* Extrinsics without their hash. The chain's metadata gives balances.transfer
\* exactly (dest, value); any other call may have fewer arguments.
Calls ==
    {c \in [section : {"balances", "system"}, method : {"transfer", "remark"},
            args : ArgLists] :
        (c.section = "balances" /\ c.method = "transfer") => Len(c.args) = 2}

\* A block's extrinsics: the hash of an extrinsic identifies it within the
\* block, so the i-th one gets hash i.
WithHashes(calls) ==
    [i \in 1..Len(calls) |->
        [section |-> calls[i].section, method |-> calls[i].method,
         args |-> calls[i].args, hash |-> i]]

SeqsUpTo(S, n) == UNION {[1..k -> S] : k \in 0..n}

ScanBlocks == {WithHashes(cs) : cs \in SeqsUpTo(Calls, MaxOps)}

\* ------------------------------------------------------------------ scans

NoInfo == [netAmount |-> Undefined, extrinsicHash |-> Undefined]

\* The condition of getGlitchInfo's if.
IsTransferTo(ex, toGlitchAddress) ==
    /\ ex.section = "balances"
    /\ ex.method = "transfer"
    /\ ArgToString(ex.args[1]) = toGlitchAddress

\* One iteration of getGlitchInfo's forEach callback on extrinsic ex.
GlitchStep(acc, ex, toGlitchAddress) ==
    IF IsTransferTo(ex, toGlitchAddress)
    THEN [netAmount |-> At1(ArgsToStrings(ex.args)), extrinsicHash |-> ToHex(ex.hash)]
    ELSE acc

RECURSIVE GlitchFold(_, _, _, _)
GlitchFold(acc, extrinsics, i, toGlitchAddress) ==
    IF i > Len(extrinsics) THEN acc
    ELSE GlitchFold(GlitchStep(acc, extrinsics[i], toGlitchAddress),
                    extrinsics, i + 1, toGlitchAddress)

\* Mutant: the scan keeps the first match (the assignment guarded by
\* "nothing found yet").
RECURSIVE FirstMatchFold(_, _, _, _)
FirstMatchFold(acc, extrinsics, i, toGlitchAddress) ==
    IF i > Len(extrinsics) THEN acc
    ELSE FirstMatchFold(IF acc = NoInfo
                        THEN GlitchStep(acc, extrinsics[i], toGlitchAddress)
                        ELSE acc,
                        extrinsics, i + 1, toGlitchAddress)

GlitchScanFirstMatch(extrinsics, toGlitchAddress) ==
    FirstMatchFold(NoInfo, extrinsics, 1, toGlitchAddress)

\* Mutant: the recipient test is dropped from the if.
RECURSIVE AnyTransferFold(_, _, _)
AnyTransferFold(acc, extrinsics, i) ==
    IF i > Len(extrinsics) THEN acc
    ELSE AnyTransferFold(
            IF extrinsics[i].section = "balances" /\ extrinsics[i].method = "transfer"
            THEN [netAmount |-> At1(ArgsToStrings(extrinsics[i].args)),
                  extrinsicHash |-> ToHex(extrinsics[i].hash)]
            ELSE acc,
            extrinsics, i + 1)

GlitchScanAnyRecipient(extrinsics, toGlitchAddress) ==
    AnyTransferFold(NoInfo, extrinsics, 1)

\* getGlitchInfo after the block has been fetched: netAmount and extrinsicHash
\* start undefined, the forEach runs over every extrinsic in order, and the
\* pair is returned.
GlitchScan(extrinsics, toGlitchAddress) ==
    GlitchFold(NoInfo, extrinsics, 1, toGlitchAddress)

\* One iteration of transactionInfo's forEach callback: unconditional.
LastStep(acc, ex) ==
    [netAmount |-> At1(ArgsToStrings(ex.args)), extrinsicHash |-> ToHex(ex.hash)]

RECURSIVE LastFold(_, _, _)
LastFold(acc, extrinsics, i) ==
    IF i > Len(extrinsics) THEN acc
    ELSE LastFold(LastStep(acc, extrinsics[i]), extrinsics, i + 1)

\* Mutant: the unconditional scan stops updating after the first extrinsic.
UnconditionalScanFirst(extrinsics) ==
    IF Len(extrinsics) = 0 THEN NoInfo ELSE LastStep(NoInfo, extrinsics[1])

\* transactionInfo's extraction after the block has been fetched.
UnconditionalScan(extrinsics) == LastFold(NoInfo, extrinsics, 1)

\* ------------------------------------------------------------------ store

\* The rows of the transaction table. Both bridge transfers were settled in
\* the same block of the Substrate chain, one to each recipient.
Ids == {1, 2}

IdOrder == <<1, 2>>

Fixed ==
    [id \in Ids |->
        IF id = 1
        THEN [from_eth_address |-> "0xE1", to_glitch_address |-> "0xAA",
              tx_eth_hash |-> "0xe1", tx_glitch_hash |-> "0xb1"]
        ELSE [from_eth_address |-> "0xE1", to_glitch_address |-> "0xBB",
              tx_eth_hash |-> "0xe2", tx_glitch_hash |-> "0xb1"]]

\* :wallet and :eth_tx values of the requests.
Wallets == {"0xE1", "0xZZ"}
EthHashes == {"0xe1", "0xdead"}

\* request.query.page || 0 and request.query.limit || 10 of a request that
\* gives neither.
DefaultPage == 0
DefaultLimit == 10

Min(a, b) == IF a < b THEN a ELSE b

\* The entity object the repository hands out for row id.
Entity(st, id) ==
    [id |-> id, net_amount |-> st[id].net_amount,
     extrinsic_hash |-> st[id].extrinsic_hash]

\* txRepository.find({where: [{from_eth_address}, {to_glitch_address}]}): the
\* ids of the matching rows, in table order.
FindAll(wallet) ==
    SelectSeq(IdOrder, LAMBDA id :
        \/ Fixed[id].from_eth_address = wallet
        \/ Fixed[id].to_glitch_address = wallet)

\* txRepository.find({take, skip, where: [{from_eth_address}, {to_glitch_address}]}):
\* the ids of the matching rows, in table order, after skip and take.
Find(wallet, take, skip) ==
    LET all == FindAll(wallet)
    IN  SubSeq(all, skip + 1, Min(Len(all), skip + take))

\* txRepository.findOne({tx_eth_hash}): the matching ids (none or one).
FindOne(eth_tx) == SelectSeq(IdOrder, LAMBDA id : Fixed[id].tx_eth_hash = eth_tx)

\* Mutant: save writes an undefined property as NULL.
SaveUndefinedAsNull(st, tx) ==
    [st EXCEPT ![tx.id] =
        [net_amount |-> IF tx.net_amount = Undefined THEN Null ELSE tx.net_amount,
         extrinsic_hash |-> IF tx.extrinsic_hash = Undefined THEN Null
                            ELSE tx.extrinsic_hash]]

\* txRepository.save(tx) of an entity loaded from the table: every property
\* that is not undefined is written to the row, an undefined one is skipped.
Save(st, tx) ==
    [st EXCEPT ![tx.id] =
        [net_amount |-> IF tx.net_amount = Undefined THEN @.net_amount
                        ELSE tx.net_amount,
         extrinsic_hash |-> IF tx.extrinsic_hash = Undefined THEN @.extrinsic_hash
                            ELSE tx.extrinsic_hash]]

\* Mutant: the test for an enriched record is lost.
IsEnrichedNever(tx) == FALSE

\* tx.extrinsic_hash && tx.net_amount
IsEnriched(tx) == Truthy(tx.extrinsic_hash) /\ Truthy(tx.net_amount)

\* !tx.extrinsic_hash && !tx.net_amount
NeedsEnrichment(tx) == ~Truthy(tx.extrinsic_hash) /\ ~Truthy(tx.net_amount)

\* tx.extrinsic_hash = glitchInfo.extrinsicHash; tx.net_amount = glitchInfo.netAmount
WithInfo(tx, glitchInfo) ==
    [tx EXCEPT !.extrinsic_hash = glitchInfo.extrinsicHash,
               !.net_amount = glitchInfo.netAmount]

\* ------------------------------------------------------------------ chain

\* The calls the blocks served to the handlers are made of.
ChainCalls ==
    {c \in Calls :
        \/ c.section = "balances" /\ c.method = "transfer"
             /\ ArgsToStrings(c.args) \in {<<"0xAA", "100">>, <<"0xBB", "999">>}
        \/ c.section = "system" /\ c.method = "remark"
             /\ ArgsToStrings(c.args) = <<"0xAA">>}

ChainBlocks == {WithHashes(cs) : cs \in SeqsUpTo(ChainCalls, MaxChainOps)}

\* getGlitchInfo(tx, api) of the module ./glitch, as the specification
\* describes the matcher: the first balances.transfer to the record's
\* recipient wins.
GlitchModuleInfo(extrinsics, tx) ==
    LET T == Fixed[tx.id].to_glitch_address
        hits == {i \in 1..Len(extrinsics) : IsTransferTo(extrinsics[i], T)}
    IN  IF hits = {} THEN NoInfo
        ELSE LET i == CHOOSE k \in hits : \A j \in hits : k <= j
             IN  [netAmount |-> At1(ArgsToStrings(extrinsics[i].args)),
                  extrinsicHash |-> ToHex(extrinsics[i].hash)]

\* ------------------------------------------------------------------ state

VARIABLES
    scanPc,      \* "input" | "filtered": whether the scan has run ("idle" under Spec)
    scanBlock,   \* the block the pure scans are applied to
    scanTarget,  \* the target address of the filtered scan
    scanOut,     \* what the scan returned
    store,       \* the transaction table: id -> [net_amount, extrinsic_hash]
    chain,       \* the block at hash 0xb1 on the chain node
    reqs,        \* the HTTP requests being handled: slot -> request
    started      \* number of requests received so far

scanVars == <<scanPc, scanBlock, scanTarget, scanOut>>

vars == <<scanPc, scanBlock, scanTarget, scanOut, store, chain, reqs, started>>

\* Two requests are handled at a time; a slot takes the next request once
\* everything its request started has settled.
Reqs == {1, 2}

NoBody == [error |-> "", netAmount |-> Undefined, extrinsicHash |-> Undefined,
           entries |-> <<>>]

IdleReq == [kind |-> "idle", param |-> "", found |-> <<>>, tasks |-> <<>>,
            status |-> 0, body |-> NoBody, pc |-> "idle"]

\* The per-record state of a handler: the entity object tx, the response
\* object of the later revision, the program position, whether a save is in
\* flight and whether the chain stage failed.
NewTask(tx, pc) ==
    [pc |-> pc, tx |-> tx,
     resp |-> [id |-> tx.id, net_amount |-> tx.net_amount,
               extrinsic_hash |-> tx.extrinsic_hash, glitch |-> FALSE, eth |-> FALSE],
     saving |-> FALSE, failed |-> FALSE]

\* How a record is serialised into the response array.
EntryOf(tx) ==
    [id |-> tx.id, net_amount |-> tx.net_amount,
     extrinsic_hash |-> tx.extrinsic_hash, glitch |-> FALSE, eth |-> FALSE]


\* ------------------------------------------------------------------ handlers

Range(f) == {f[i] : i \in DOMAIN f}

\* Nothing of request q is pending any more: the handler has answered or
\* thrown, and every fetch and save it started has settled.
Settled(q) ==
    /\ q.pc \in {"idle", "responded", "crashed"}
    /\ \A id \in DOMAIN q.tasks :
        q.tasks[id].pc \in {"skipped", "done", "failed"} /\ ~q.tasks[id].saving

\* A request arrives and is handled in the first free slot.
CanStart(r) ==
    /\ Settled(reqs[r])
    /\ \A q \in Reqs : q < r => ~Settled(reqs[q])
    /\ started < MaxRequests
    /\ started' = started + 1

SetTask(r, id, task) == [reqs EXCEPT ![r].tasks[id] = task]

\* The .catch of the getGlitchInfo promise: the error is logged.
HistoryCatch(task) == [task EXCEPT !.pc = "failed", !.failed = TRUE]

\* Mutant: no try/catch around the getGlitchInfo stage, the callback's
\* promise rejects.
GlitchNoCatch(task) == [task EXCEPT !.pc = "crashed", !.failed = TRUE]

\* The catch block around the getGlitchInfo stage of the later revision: the
\* error is logged and the callback goes on to the Ethereum stage.
GlitchCatch(task) == [task EXCEPT !.pc = "eth", !.failed = TRUE]

\* GET /api/transactionHistory/:wallet of app.ts, up to the response: find,
\* then the map callback of every record runs to its end (it awaits nothing:
\* for a record that is not enriched it calls getGlitchInfo, which asks the
\* node for the block, and attaches then/catch), Promise.all resolves and the
\* records are sent as they were read.
HistoryStart(r, wallet) ==
    /\ CanStart(r)
    /\ LET found == FindAll(wallet)
           tasks == [id \in Range(found) |->
                        LET tx == Entity(store, id)
                        IN  NewTask(tx, IF IsEnriched(tx) THEN "skipped" ELSE "fetching")]
       IN  reqs' = [reqs EXCEPT ![r] =
                [kind |-> "history", param |-> wallet, found |-> found,
                 tasks |-> tasks, status |-> 200,
                 body |-> [NoBody EXCEPT !.entries =
                              [i \in 1..Len(found) |-> EntryOf(tasks[found[i]].tx)]],
                 pc |-> "responded"]]
    /\ UNCHANGED <<store, chain, scanVars>>

\* api.rpc.chain.getBlock resolves: getGlitchInfo scans the block and returns,
\* the then callback assigns both fields and calls save.
HistoryFetchOk(r, id) ==
    /\ reqs[r].kind = "history"
    /\ id \in DOMAIN reqs[r].tasks
    /\ reqs[r].tasks[id].pc = "fetching"
    /\ LET task == reqs[r].tasks[id]
           glitchInfo == GlitchScan(chain, Fixed[id].to_glitch_address)
       IN  reqs' = SetTask(r, id, [task EXCEPT !.tx = WithInfo(task.tx, glitchInfo),
                                               !.pc = "saving", !.saving = TRUE])
    /\ UNCHANGED <<store, chain, scanVars, started>>

\* api.rpc.chain.getBlock rejects: getGlitchInfo logs the error, then reads
\* signedBlock.block of undefined and throws; the catch callback logs it.
HistoryFetchFail(r, id) ==
    /\ reqs[r].kind = "history"
    /\ id \in DOMAIN reqs[r].tasks
    /\ reqs[r].tasks[id].pc = "fetching"
    /\ reqs' = SetTask(r, id, HistoryCatch(reqs[r].tasks[id]))
    /\ UNCHANGED <<store, chain, scanVars, started>>

\* await txRepository.save(tx) of the then callback completes.
HistorySave(r, id) ==
    /\ reqs[r].kind = "history"
    /\ id \in DOMAIN reqs[r].tasks
    /\ reqs[r].tasks[id].pc = "saving"
    /\ store' = Save(store, reqs[r].tasks[id].tx)
    /\ reqs' = SetTask(r, id, [reqs[r].tasks[id] EXCEPT !.pc = "done", !.saving = FALSE])
    /\ UNCHANGED <<chain, scanVars, started>>

\* return response.json(await Promise.all(txsWithInfo)): once every callback
\* has returned, the response objects are sent, in the order of the records.
JoinAll(q) ==
    IF q.pc = "running" /\ \A id \in DOMAIN q.tasks : q.tasks[id].pc = "done"
    THEN [q EXCEPT !.status = 200,
                   !.body.entries = [i \in 1..Len(q.found) |-> q.tasks[q.found[i]].resp],
                   !.pc = "responded"]
    ELSE q

\* GET /api/transactionHistory/:wallet of the later revision, up to the first
\* await of every map callback: find with take and skip, then each callback
\* copies the record into its response object and calls getGlitchInfo(tx, api).
HistoryV2Start(r, wallet) ==
    /\ CanStart(r)
    /\ LET found == Find(wallet, DefaultLimit, DefaultLimit * DefaultPage)
       IN  reqs' = [reqs EXCEPT ![r] = JoinAll(
                [kind |-> "historyV2", param |-> wallet, found |-> found,
                 tasks |-> [id \in Range(found) |-> NewTask(Entity(store, id), "glitch")],
                 status |-> 0, body |-> NoBody, pc |-> "running"])]
    /\ UNCHANGED <<store, chain, scanVars>>

\* getGlitchInfo(tx, api) resolves: a record with neither field gets both and
\* save is called without being awaited; the response object gets glitch_fee
\* and glitch_timestamp; then the Ethereum provider is asked.
HistoryV2GlitchOk(r, id) ==
    /\ reqs[r].kind = "historyV2"
    /\ id \in DOMAIN reqs[r].tasks
    /\ reqs[r].tasks[id].pc = "glitch"
    /\ LET task == reqs[r].tasks[id]
           glitchInfo == GlitchModuleInfo(chain, task.tx)
           enrich == NeedsEnrichment(task.tx)
       IN  reqs' = SetTask(r, id,
                [task EXCEPT !.tx = IF enrich THEN WithInfo(task.tx, glitchInfo) ELSE @,
                             !.saving = enrich,
                             !.resp.glitch = TRUE,
                             !.pc = "eth"])
    /\ UNCHANGED <<store, chain, scanVars, started>>

\* getGlitchInfo(tx, api) rejects: caught and logged.
HistoryV2GlitchFail(r, id) ==
    /\ reqs[r].kind = "historyV2"
    /\ id \in DOMAIN reqs[r].tasks
    /\ reqs[r].tasks[id].pc = "glitch"
    /\ reqs' = SetTask(r, id, GlitchCatch(reqs[r].tasks[id]))
    /\ UNCHANGED <<store, chain, scanVars, started>>

\* provider.getTransaction and provider.getBlock resolve: eth_timestamp is
\* merged into the response object and the callback returns it.
HistoryV2EthOk(r, id) ==
    /\ reqs[r].kind = "historyV2"
    /\ id \in DOMAIN reqs[r].tasks
    /\ reqs[r].tasks[id].pc = "eth"
    /\ reqs' = [reqs EXCEPT ![r] =
                    JoinAll([@ EXCEPT !.tasks[id].resp.eth = TRUE, !.tasks[id].pc = "done"])]
    /\ UNCHANGED <<store, chain, scanVars, started>>

\* The Ethereum stage throws: caught and logged, the callback returns the
\* response object without eth_timestamp.
HistoryV2EthFail(r, id) ==
    /\ reqs[r].kind = "historyV2"
    /\ id \in DOMAIN reqs[r].tasks
    /\ reqs[r].tasks[id].pc = "eth"
    /\ reqs' = [reqs EXCEPT ![r] = JoinAll([@ EXCEPT !.tasks[id].pc = "done"])]
    /\ UNCHANGED <<store, chain, scanVars, started>>

\* The save that was not awaited completes.
HistoryV2Save(r, id) ==
    /\ reqs[r].kind = "historyV2"
    /\ id \in DOMAIN reqs[r].tasks
    /\ reqs[r].tasks[id].saving
    /\ store' = Save(store, reqs[r].tasks[id].tx)
    /\ reqs' = SetTask(r, id, [reqs[r].tasks[id] EXCEPT !.saving = FALSE])
    /\ UNCHANGED <<chain, scanVars, started>>

\* GET /api/transactionInfo/:eth_tx up to its second await: findOne; then
\* tx.extrinsic_hash is read (a TypeError when findOne found nothing, before
\* the !tx test is reached); an enriched record is answered from the stored
\* values; otherwise the node is asked for the block.
InfoStart(r, eth_tx) ==
    /\ CanStart(r)
    /\ LET found == FindOne(eth_tx)
           tasks == [id \in Range(found) |-> NewTask(Entity(store, id), "fetching")]
           new == [kind |-> "info", param |-> eth_tx, found |-> found,
                   tasks |-> tasks, status |-> 0, body |-> NoBody, pc |-> "running"]
       IN  reqs' = [reqs EXCEPT ![r] =
                IF found = <<>>
                THEN [new EXCEPT !.pc = "crashed"]
                ELSE LET tx == tasks[found[1]].tx
                     IN  IF IsEnriched(tx)
                         THEN [new EXCEPT !.tasks[found[1]].pc = "skipped",
                                          !.status = 200,
                                          !.body.netAmount = tx.net_amount,
                                          !.body.extrinsicHash = tx.extrinsic_hash,
                                          !.pc = "responded"]
                         ELSE new]
    /\ UNCHANGED <<store, chain, scanVars>>

\* getBlock resolves: the forEach takes amount and hash of every extrinsic in
\* turn, both are assigned to the record and save is called.
InfoFetchOk(r, id) ==
    /\ reqs[r].kind = "info"
    /\ id \in DOMAIN reqs[r].tasks
    /\ reqs[r].tasks[id].pc = "fetching"
    /\ LET task == reqs[r].tasks[id]
           info == UnconditionalScan(chain)
       IN  reqs' = [reqs EXCEPT ![r].tasks[id] =
                        [task EXCEPT !.tx = WithInfo(task.tx, info),
                                     !.pc = "saving", !.saving = TRUE],
                    ![r].body.netAmount = info.netAmount,
                    ![r].body.extrinsicHash = info.extrinsicHash]
    /\ UNCHANGED <<store, chain, scanVars, started>>

\* getBlock rejects: HTTP 400 with the error.
InfoFetchFail(r, id) ==
    /\ reqs[r].kind = "info"
    /\ id \in DOMAIN reqs[r].tasks
    /\ reqs[r].tasks[id].pc = "fetching"
    /\ reqs' = [reqs EXCEPT ![r].tasks[id].pc = "failed",
                            ![r].tasks[id].failed = TRUE,
                            ![r].status = 400,
                            ![r].body.error = "Error getting information from the block",
                            ![r].pc = "responded"]
    /\ UNCHANGED <<store, chain, scanVars, started>>

\* await txRepository.save(tx) completes and { netAmount, extrinsicHash } is
\* sent.
InfoSave(r, id) ==
    /\ reqs[r].kind = "info"
    /\ id \in DOMAIN reqs[r].tasks
    /\ reqs[r].tasks[id].pc = "saving"
    /\ store' = Save(store, reqs[r].tasks[id].tx)
    /\ reqs' = [reqs EXCEPT ![r].tasks[id].pc = "done",
                            ![r].tasks[id].saving = FALSE,
                            ![r].status = 200,
                            ![r].pc = "responded"]
    /\ UNCHANGED <<chain, scanVars, started>>

Init ==
    /\ store = [id \in Ids |-> [net_amount |-> Null, extrinsic_hash |-> Null]]
    /\ chain \in ChainBlocks
    /\ reqs = [r \in Reqs |-> IdleReq]
    /\ started = 0
    /\ scanPc = "idle"
    /\ scanBlock = <<>>
    /\ scanTarget = ""
    /\ scanOut = NoInfo

Next ==
    \E r \in Reqs :
        \/ \E wallet \in Wallets : HistoryStart(r, wallet)
        \/ \E wallet \in Wallets : HistoryV2Start(r, wallet)
        \/ \E eth_tx \in EthHashes : InfoStart(r, eth_tx)
        \/ \E id \in Ids :
            \/ HistoryFetchOk(r, id)
            \/ HistoryFetchFail(r, id)
            \/ HistorySave(r, id)
            \/ HistoryV2GlitchOk(r, id)
            \/ HistoryV2GlitchFail(r, id)
            \/ HistoryV2EthOk(r, id)
            \/ HistoryV2EthFail(r, id)
            \/ HistoryV2Save(r, id)
            \/ InfoFetchOk(r, id)
            \/ InfoFetchFail(r, id)
            \/ InfoSave(r, id)

Spec == Init /\ [][Next]_vars

\* ------------------------------------------------------------------ SpecScan

ScanInit ==
    /\ scanPc = "input"
    /\ scanBlock \in ScanBlocks
    /\ scanTarget \in Addresses
    /\ scanOut = NoInfo
    /\ store = [id \in Ids |-> [net_amount |-> Null, extrinsic_hash |-> Null]]
    /\ chain = <<>>
    /\ reqs = [r \in Reqs |-> IdleReq]
    /\ started = 0

\* getGlitchInfo(glitchHash, toGlitchAddress) on a fetched block.
ApplyGlitchScan ==
    /\ scanPc = "input"
    /\ scanPc' = "filtered"
    /\ scanOut' = GlitchScan(scanBlock, scanTarget)
    /\ UNCHANGED <<scanBlock, scanTarget, store, chain, reqs, started>>

ScanNext == ApplyGlitchScan

SpecScan == ScanInit /\ [][ScanNext]_vars

\* ------------------------------------------------------------------ claims

\* An operation whose section is "balances", whose method is "transfer" and
\* whose first argument equals T.
IsMatch(op, T) ==
    /\ op.section = "balances"
    /\ op.method = "transfer"
    /\ Len(op.args) >= 1
    /\ ArgToString(op.args[1]) = T

MatchingPositions(B, T) == {i \in 1..Len(B) : IsMatch(B[i], T)}

FirstOf(S) == CHOOSE i \in S : \A j \in S : i <= j
LastOf(S) == CHOOSE i \in S : \A j \in S : j <= i

\* The second argument of an operation as a string (absent when it has
\* fewer than two) and its hash in hex.
AmountAndHash(op) ==
    [netAmount |-> IF Len(op.args) >= 2 THEN ArgToString(op.args[2]) ELSE Undefined,
     extrinsicHash |-> ToHex(op.hash)]

BothSet(row) == Truthy(row.net_amount) /\ Truthy(row.extrinsic_hash)
BothAbsent(row) == ~Truthy(row.net_amount) /\ ~Truthy(row.extrinsic_hash)

HistoryKinds == {"history", "historyV2"}
Terminal == {"skipped", "done", "failed"}

C9_NoMatchGivesAbsent ==
    (scanPc = "filtered" /\ MatchingPositions(scanBlock, scanTarget) = {}) =>
        /\ scanOut.netAmount = Undefined
        /\ scanOut.extrinsicHash = Undefined

\* C9 witness: a block with a balances.transfer to 0xAA and a system.transfer
\* to 0xBB was scanned for 0xBB and gave nothing.
C9_OtherRecipientScanned ==
    /\ scanPc = "filtered"
    /\ scanTarget = "0xBB"
    /\ scanBlock = WithHashes(<<
            [section |-> "balances", method |-> "transfer",
             args |-> <<AccountArg("0xAA"), BalanceArg(100)>>],
            [section |-> "system", method |-> "transfer",
             args |-> <<AccountArg("0xBB"), BalanceArg(999)>>]>>)
    /\ scanOut = NoInfo

\* C2 (as stated): every stored record has net_amount and extrinsic_hash
\* either both absent or both present.
C2_BothOrNeither ==
    \A id \in Ids : BothSet(store[id]) \/ BothAbsent(store[id])

\* C3 (as stated): once a stored record has both net_amount and
\* extrinsic_hash, no later save changes either field.
C3_NeverOverwritten ==
    [][\A id \in Ids : BothSet(store[id]) => store'[id] = store[id]]_vars

\* C4 (as stated): a transactionInfo request whose hash matches no stored
\* record ends with an HTTP 400 response, the handler does not fail first.
C4_UnknownHashGets400 ==
    \A r \in Reqs :
        (reqs[r].kind = "info" /\ FindOne(reqs[r].param) = <<>>) =>
            /\ reqs[r].pc # "crashed"
            /\ reqs[r].pc = "responded" => reqs[r].status = 400

\* C5 (as stated): the history handlers issue a save for a record only when
\* the block holds a balances.transfer to the record's to_glitch_address.
C5_NoSaveWithoutMatch ==
    \A r \in Reqs : \A id \in DOMAIN reqs[r].tasks :
        (reqs[r].kind \in HistoryKinds /\ reqs[r].tasks[id].saving) =>
            MatchingPositions(chain, Fixed[id].to_glitch_address) # {}

\* C5 (amended): when the block holds no balances.transfer to the record's
\* to_glitch_address, the save the history handlers still issue for the
\* record leaves the stored records unchanged.
C5_NoMatchSaveKeepsRecord ==
    [][\A r \in Reqs : \A id \in DOMAIN reqs[r].tasks :
        ( /\ reqs[r].kind \in HistoryKinds
          /\ reqs[r].tasks[id].saving
          /\ id \in DOMAIN reqs'[r].tasks
          /\ ~reqs'[r].tasks[id].saving
          /\ MatchingPositions(chain, Fixed[id].to_glitch_address) = {} )
        => store' = store]_vars

\* C5 witness: a history handler has completed its save for a record without
\* a match (both fields of its entity undefined) while the stored record
\* carries values another request saved.
C5_NoMatchSaveDone ==
    \E r \in Reqs : \E id \in DOMAIN reqs[r].tasks :
        /\ reqs[r].kind \in HistoryKinds
        /\ reqs[r].tasks[id].pc = "done"
        /\ ~reqs[r].tasks[id].saving
        /\ reqs[r].tasks[id].tx.net_amount = Undefined
        /\ reqs[r].tasks[id].tx.extrinsic_hash = Undefined
        /\ MatchingPositions(chain, Fixed[id].to_glitch_address) = {}
        /\ BothSet(store[id])

\* A block fetch for record id starts in this step of request slot r.
FetchStarts(r, id) ==
    /\ id \in DOMAIN reqs'[r].tasks
    /\ reqs'[r].tasks[id].pc \in {"fetching", "glitch"}
    /\ ~(id \in DOMAIN reqs[r].tasks /\ reqs[r].tasks[id].pc \in {"fetching", "glitch"})

C7_FailuresIsolated ==
    \A r \in Reqs :
        reqs[r].kind \in HistoryKinds =>
            /\ reqs[r].pc # "crashed"
            /\ \A id \in DOMAIN reqs[r].tasks : reqs[r].tasks[id].pc # "crashed"
            /\ (\A id \in DOMAIN reqs[r].tasks : reqs[r].tasks[id].pc \in Terminal)
                    => reqs[r].status = 200
            /\ reqs[r].status = 200 =>
                /\ Len(reqs[r].body.entries) = Len(FindAll(reqs[r].param))
                /\ \A i \in 1..Len(reqs[r].body.entries) :
                    LET id == FindAll(reqs[r].param)[i]
                        entry == reqs[r].body.entries[i]
                    IN  /\ entry.id = id
                        /\ reqs[r].tasks[id].failed =>
                            /\ ~entry.glitch
                            /\ entry.net_amount = reqs[r].tasks[id].tx.net_amount
                            /\ entry.extrinsic_hash = reqs[r].tasks[id].tx.extrinsic_hash

\* C7 witness: a history request of the later revision over two records has
\* answered with two entries; the chain stage of record 1 failed and record 2
\* got its glitch fields and its Ethereum timestamp.
C7_PartialFailureAnswered ==
    \E r \in Reqs :
        /\ reqs[r].kind = "historyV2"
        /\ reqs[r].status = 200
        /\ Len(reqs[r].body.entries) = 2
        /\ reqs[r].tasks[1].failed
        /\ ~reqs[r].body.entries[1].glitch
        /\ reqs[r].body.entries[2].glitch
        /\ reqs[r].body.entries[2].eth

\* C8: when transactionInfo extracts from a non-empty block, it answers with
\* the second argument (absent when there is none) and the hash of the
\* block's last operation, and its save leaves that hash, and that argument
\* when there is one, in the stored record.
C8_LastOperationReturned ==
    [][\A r \in Reqs :
        ( /\ reqs[r].kind = "info"
          /\ reqs[r].pc = "running"
          /\ reqs'[r].pc = "responded"
          /\ reqs'[r].status = 200
          /\ chain # <<>> )
        => LET want == AmountAndHash(chain[Len(chain)])
               id == reqs[r].found[1]
           IN  /\ reqs'[r].body.netAmount = want.netAmount
               /\ reqs'[r].body.extrinsicHash = want.extrinsicHash
               /\ store'[id].extrinsic_hash = want.extrinsicHash
               /\ want.netAmount # Undefined => store'[id].net_amount = want.netAmount]_vars

\* C8 witness: transactionInfo has extracted from a block of two operations
\* whose last one is a system.remark, answered with that operation's hash and
\* stored it.
C8_RemarkExtracted ==
    \E r \in Reqs :
        /\ reqs[r].kind = "info"
        /\ reqs[r].status = 200
        /\ reqs[r].found # <<>>
        /\ reqs[r].tasks[reqs[r].found[1]].pc = "done"
        /\ Len(chain) = 2
        /\ chain[2].section = "system"
        /\ chain[2].method = "remark"
        /\ reqs[r].body.extrinsicHash = "0x2"
        /\ store[reqs[r].found[1]].extrinsic_hash = "0x2"

\* C10 (as stated): when a history handler has sent its response, no block
\* fetch, matcher run or save it started for any of its records is pending.
C10_ResponseAfterAllTasks ==
    \A r \in Reqs :
        (reqs[r].kind \in HistoryKinds /\ reqs[r].status = 200) =>
            \A id \in DOMAIN reqs[r].tasks :
                reqs[r].tasks[id].pc \in Terminal /\ ~reqs[r].tasks[id].saving

====
